---------------------------- MODULE Spec2Model ----------------------------
(***************************************************************************)
(* Model of the `recurrent` crate: a weekly Recurrence (a set of weekdays  *)
(* plus one time of day) with the queries next and prev.                   *)
(*                                                                         *)
(* Timestamps are DateTime<T> values seen in their own local frame: a day  *)
(* number (day 0 is a Monday), a second of the day and a sub-second tick.  *)
(* The frame is a fixed-offset one (as Utc in the crate's tests): adding   *)
(* Duration::days(n) moves the local date by n days and keeps the local    *)
(* time of day, and no leap-second representation is used.  A day is       *)
(* scaled down to SecPerDay seconds of SubPerSec ticks each.               *)
(***************************************************************************)
EXTENDS Integers, Sequences, FiniteSets

VARIABLES src, tod, rec, call, prevCall

vars == <<src, tod, rec, call, prevCall>>

---------------------------------------------------------------------------
(* Bounds of the model *)

\* longest slice / largest tuple arity given to Recurrence::new
MaxLen == 2
\* seconds in a (scaled) day
SecPerDay == 2
\* sub-second ticks in a (scaled) second
SubPerSec == 2
\* last day number a timestamp may carry
MaxDay == 27

---------------------------------------------------------------------------
(* Weekdays *)

\* enum OrderedWeekday: the discriminants
Mon == 0
Tue == 1
Wed == 2
Thu == 3
Fri == 4
Sat == 5
Sun == 6

\* length of the weekly cycle used by duration_to / duration_from
DaysPerWeek == 7

\* largest tuple arity with a Weekdays impl
MaxTuple == 7

OrderedWeekday == {Mon, Tue, Wed, Thu, Fri, Sat, Sun}

\* chrono::Weekday, in calendar order
WeekdayNames == <<"Mon", "Tue", "Wed", "Thu", "Fri", "Sat", "Sun">>

Weekday == {WeekdayNames[i] : i \in 1..Len(WeekdayNames)}

\* impl From<Weekday> for OrderedWeekday
OrderedOf(w) ==
    CASE w = "Mon" -> Mon
      [] w = "Tue" -> Tue
      [] w = "Wed" -> Wed
      [] w = "Thu" -> Thu
      [] w = "Fri" -> Fri
      [] w = "Sat" -> Sat
      [] w = "Sun" -> Sun

\* mutant: `if duration < 0` instead of `if duration < 1`
duration_to_lt0(self, next) ==
    LET duration == next - self
    IN  IF duration < 0 THEN duration + DaysPerWeek ELSE duration

\* OrderedWeekday::duration_to, in days
duration_to(self, next) ==
    LET duration == next - self
    IN  IF duration < 1 THEN duration + DaysPerWeek ELSE duration

\* mutant: `if duration > 0` instead of `if duration >= 0`
duration_from_gt0(self, prev) ==
    LET duration == prev - self
    IN  IF duration > 0 THEN duration - DaysPerWeek ELSE duration

\* OrderedWeekday::duration_from, in days (negative)
duration_from(self, prev) ==
    LET duration == prev - self
    IN  IF duration >= 0 THEN duration - DaysPerWeek ELSE duration

---------------------------------------------------------------------------
(* Times of day and timestamps *)

\* NaiveTime values
Times == [sec : 0..(SecPerDay - 1), sub : 0..(SubPerSec - 1)]

\* NaiveTime's derived ordering: seconds, then the sub-second part
TimeLt(a, b) == a.sec < b.sec \/ (a.sec = b.sec /\ a.sub < b.sub)

\* DateTime values a query may be given: a week of days, so that every result
\* stays within 0..MaxDay
QueryDates ==
    [day : DaysPerWeek..(MaxDay - DaysPerWeek),
     sec : 0..(SecPerDay - 1), sub : 0..(SubPerSec - 1)]

\* one week of them: every weekday at every time of day
WeekDates ==
    [day : DaysPerWeek..(2 * DaysPerWeek - 1),
     sec : 0..(SecPerDay - 1), sub : 0..(SubPerSec - 1)]

\* date.time()
TimeOf(date) == [sec |-> date.sec, sub |-> date.sub]

\* date.weekday()
WeekdayOf(date) == WeekdayNames[(date.day % DaysPerWeek) + 1]

\* date.clone() + Duration::days(days)
AddDays(date, days) == [date EXCEPT !.day = date.day + days]

\* position of a timestamp on the time line, in ticks (DateTime's ordering)
Instant(date) == (date.day * SecPerDay + date.sec) * SubPerSec + date.sub

\* apply_time: overwrite hour/minute/second, zero the nanoseconds
apply_time(date_time, time) ==
    [day |-> date_time.day, sec |-> time.sec, sub |-> 0]

---------------------------------------------------------------------------
(* Weekday sources: the Weekdays impls *)

SeqsOfLen(n) == [1..n -> Weekday]

TupleArities == {n \in 2..MaxTuple : n <= MaxLen}

Sources ==
    [kind : {"single"}, day : Weekday]
    \cup UNION {[kind : {"tuple"}, items : SeqsOfLen(n)] : n \in TupleArities}
    \cup UNION {[kind : {"slice"}, items : SeqsOfLen(n)] : n \in 0..MaxLen}

\* Weekdays::week_days for a single Weekday, a tuple, a slice
week_days(source) ==
    IF source.kind = "single" THEN <<source.day>> ELSE source.items

---------------------------------------------------------------------------
(* BTreeSet<OrderedWeekday>: a strictly ascending sequence *)

SetOf(s) == {s[i] : i \in 1..Len(s)}

\* mutant: keeps insertion order
BTreeInsert_unordered(set, x) ==
    IF x \in SetOf(set) THEN set ELSE Append(set, x)

\* BTreeSet::insert: keys are unique and kept in order
BTreeInsert(set, x) ==
    IF x \in SetOf(set)
    THEN set
    ELSE LET lower == SelectSeq(set, LAMBDA y : y < x)
             upper == SelectSeq(set, LAMBDA y : y > x)
         IN  lower \o <<x>> \o upper

RECURSIVE CollectFrom(_, _, _)
CollectFrom(days, i, acc) ==
    IF i > Len(days) THEN acc
    ELSE CollectFrom(days, i + 1, BTreeInsert(acc, OrderedOf(days[i])))

\* days.iter().map(|d| (*d).into()).collect()
Collect(days) == CollectFrom(days, 1, <<>>)

---------------------------------------------------------------------------
(* Recurrence *)

None == [some |-> FALSE]
Some(v) == [some |-> TRUE, val |-> v]

\* Option::unwrap_or
unwrap_or(opt, default) == IF opt.some THEN opt.val ELSE default

\* mutant: the fallback takes the last day
FirstDay_last(days) == IF Len(days) = 0 THEN None ELSE Some(days[Len(days)])

\* self.days.iter().find(|_| true)
FirstDay(days) == IF Len(days) = 0 THEN None ELSE Some(days[1])

\* self.days.iter().rev().find(|_| true)
LastDay(days) == IF Len(days) = 0 THEN None ELSE Some(days[Len(days)])

\* mutant: no emptiness check
Recurrence_new_unchecked(days, time) ==
    [tag |-> "Ok", days |-> Collect(week_days(days)), time |-> time]

\* Recurrence::new
Recurrence_new(days, time) ==
    LET v == week_days(days)
    IN  IF Len(v) = 0
        THEN [tag |-> "Err", err |-> "Empty"]
        ELSE [tag |-> "Ok", days |-> Collect(v), time |-> time]

\* mutant: the last greater day instead of the first
FindGreater_last(days, current_day) ==
    LET hits == SelectSeq(days, LAMBDA d : d > current_day)
    IN  IF Len(hits) = 0 THEN None ELSE Some(hits[Len(hits)])

\* self.days.iter().find(|day| *day > &current_day)
FindGreater(days, current_day) ==
    LET hits == SelectSeq(days, LAMBDA d : d > current_day)
    IN  IF Len(hits) = 0 THEN None ELSE Some(hits[1])

\* mutant: scans ascending (no .rev())
FindLesser_norev(days, current_day) ==
    LET hits == SelectSeq(days, LAMBDA d : d < current_day)
    IN  IF Len(hits) = 0 THEN None ELSE Some(hits[1])

\* self.days.iter().rev().find(|day| *day < &current_day)
FindLesser(days, current_day) ==
    LET hits == SelectSeq(days, LAMBDA d : d < current_day)
    IN  IF Len(hits) = 0 THEN None ELSE Some(hits[Len(hits)])

\* mutant: `<=` instead of `<`
NextIsToday_le(self, current_day, date) ==
    current_day \in SetOf(self.days) /\ ~TimeLt(self.time, TimeOf(date))

\* next's same-day test
NextIsToday(self, current_day, date) ==
    current_day \in SetOf(self.days) /\ TimeLt(TimeOf(date), self.time)

\* prev's same-day test
PrevIsToday(self, current_day, date) ==
    current_day \in SetOf(self.days) /\ TimeLt(self.time, TimeOf(date))

\* what a call leaves behind: its argument, its locals and its return value,
\* or a panic (an unwrap of None)
Returned(op, date, current_day, branch, week_day, days_to_add, value) ==
    [tag |-> "ok", op |-> op, date |-> date, current_day |-> current_day,
     branch |-> branch, week_day |-> week_day, days_to_add |-> days_to_add,
     value |-> value]

Panicked(op, date) == [tag |-> "panic", op |-> op, date |-> date]

\* Recurrence::next
Recurrence_next(self, date) ==
    LET current_day == OrderedOf(WeekdayOf(date))
    IN  IF NextIsToday(self, current_day, date)
        THEN Returned("next", date, current_day, "today", current_day, 0,
                      apply_time(AddDays(date, 0), self.time))
        ELSE LET found == FindGreater(self.days, current_day)
                 first == FirstDay(self.days)
             IN  IF ~first.some
                 THEN Panicked("next", date)
                 ELSE LET next_week_day == unwrap_or(found, first.val)
                          days_to_add == duration_to(current_day, next_week_day)
                      IN  Returned("next", date, current_day, "search",
                                   next_week_day, days_to_add,
                                   apply_time(AddDays(date, days_to_add), self.time))

\* Recurrence::prev
Recurrence_prev(self, date) ==
    LET current_day == OrderedOf(WeekdayOf(date))
    IN  IF PrevIsToday(self, current_day, date)
        THEN Returned("prev", date, current_day, "today", current_day, 0,
                      apply_time(AddDays(date, 0), self.time))
        ELSE LET found == FindLesser(self.days, current_day)
                 last == LastDay(self.days)
             IN  IF ~last.some
                 THEN Panicked("prev", date)
                 ELSE LET prev_week_day == unwrap_or(found, last.val)
                          days_to_add == duration_from(current_day, prev_week_day)
                      IN  Returned("prev", date, current_day, "search",
                                   prev_week_day, days_to_add,
                                   apply_time(AddDays(date, days_to_add), self.time))

---------------------------------------------------------------------------
(* The state machine *)

NoSource == [kind |-> "none"]
NoTime == [sec |-> -1, sub |-> -1]
NoRec == [tag |-> "none"]
NoCall == [tag |-> "none"]

Init ==
    /\ src = NoSource
    /\ tod = NoTime
    /\ rec = NoRec
    /\ call = NoCall
    /\ prevCall = NoCall

\* Recurrence::new(days, time); the caller keeps what it returns (a
\* Recurrence is immutable, so a run constructs once and then queries)
New(days, time) ==
    /\ rec = NoRec
    /\ rec' = Recurrence_new(days, time)
    /\ call' = NoCall
    /\ prevCall' = NoCall
    /\ UNCHANGED <<src, tod>>

\* self.next(&date) on the Recurrence that new returned: the first query of a
\* run (next reads nothing but self and date, so a later fresh query would
\* reach the same states)
CallNext(date) ==
    /\ rec.tag = "Ok"
    /\ call = NoCall
    /\ call' = Recurrence_next(rec, date)
    /\ prevCall' = NoCall
    /\ UNCHANGED <<src, tod, rec>>

\* self.prev(&date) on the Recurrence that new returned: the first query of a
\* run
CallPrev(date) ==
    /\ rec.tag = "Ok"
    /\ call = NoCall
    /\ call' = Recurrence_prev(rec, date)
    /\ prevCall' = NoCall
    /\ UNCHANGED <<src, tod, rec>>

\* the last result is a timestamp a further query may be given
CanWalk ==
    /\ rec.tag = "Ok"
    /\ call.tag = "ok"
    /\ call.value \in QueryDates

\* self.next(&r) where r is the result of the previous query
WalkNext ==
    /\ CanWalk
    /\ call' = Recurrence_next(rec, call.value)
    /\ prevCall' = call
    /\ UNCHANGED <<src, tod, rec>>

\* self.prev(&r) where r is the result of the previous query
WalkPrev ==
    /\ CanWalk
    /\ call' = Recurrence_prev(rec, call.value)
    /\ prevCall' = call
    /\ UNCHANGED <<src, tod, rec>>

Next ==
    \/ rec = NoRec /\ \E s \in Sources, t \in Times : New(s, t)
    \/ call = NoCall /\ \E d \in QueryDates : CallNext(d)
    \/ call = NoCall /\ \E d \in QueryDates : CallPrev(d)
    \/ WalkNext
    \/ WalkPrev

Spec == Init /\ [][Next]_vars

\* the arguments a caller is about to give to Recurrence::new
InitNew ==
    /\ src \in Sources
    /\ tod \in Times
    /\ rec = NoRec
    /\ call = NoCall
    /\ prevCall = NoCall

\* Recurrence::new(src, tod)
Construct ==
    /\ rec = NoRec
    /\ rec' = Recurrence_new(src, tod)
    /\ UNCHANGED <<src, tod, call, prevCall>>

NextNew == Construct

SpecNew == InitNew /\ [][NextNew]_vars

---------------------------------------------------------------------------
(* Vocabulary of the properties *)

TicksPerDay == SecPerDay * SubPerSec

\* the timestamp at a position of the time line
DateAt(i) ==
    [day |-> i \div TicksPerDay,
     sec |-> (i % TicksPerDay) \div SubPerSec,
     sub |-> i % SubPerSec]

\* an occurrence of the schedule: its weekday is in DaySet, its
\* hour/minute/second are TimeOfDay's, its sub-second part is 0
IsOccurrence(self, date) ==
    /\ OrderedOf(WeekdayOf(date)) \in SetOf(self.days)
    /\ date.sec = self.time.sec
    /\ date.sub = 0

\* an occurrence strictly between two timestamps
OccurrenceBetween(self, lo, hi) ==
    \E i \in (Instant(lo) + 1)..(Instant(hi) - 1) : IsOccurrence(self, DateAt(i))

\* a query of the given kind has been made on a Recurrence that new returned
Queried(op) == rec.tag = "Ok" /\ call.tag # "none" /\ call.op = op

\* the Recurrence was built from a whole hour/minute/second
WholeSecond == rec.time.sub = 0

\* the claims' same-day case of next: the weekday is configured and the time of
\* day is strictly before TimeOfDay
SameDayCase(self, date) ==
    /\ OrderedOf(WeekdayOf(date)) \in SetOf(self.days)
    /\ TimeLt(TimeOf(date), self.time)

\* the distinct weekdays a source yields, as ordinals
DistinctDays(source) ==
    {OrderedOf(week_days(source)[i]) : i \in 1..Len(week_days(source))}

MinOf(S) == CHOOSE x \in S : \A y \in S : x <= y
MaxOf(S) == CHOOSE x \in S : \A y \in S : x >= y

---------------------------------------------------------------------------
(* C1: with a whole-second TimeOfDay, next(t) is the nearest occurrence    *)
(* strictly in the future: it is an occurrence, it is later than t, and no *)
(* occurrence lies strictly between t and it.                              *)
C1_NextIsNearestFuture ==
    (Queried("next") /\ WholeSecond) =>
        /\ call.tag = "ok"
        /\ IsOccurrence(rec, call.value)
        /\ Instant(call.value) > Instant(call.date)
        /\ ~OccurrenceBetween(rec, call.date, call.value)

\* next wrapped past the end of a two-day set, from a timestamp with a
\* sub-second part
C1_Witness ==
    /\ Queried("next") /\ WholeSecond
    /\ call.tag = "ok"
    /\ call.date.sub # 0
    /\ Len(rec.days) >= 2
    /\ call.branch = "search"
    /\ call.week_day < call.current_day

(* C2: with a whole-second TimeOfDay, prev(t) is the nearest occurrence    *)
(* strictly in the past: it is an occurrence, it is earlier than t (also   *)
(* when t is itself an occurrence), and no occurrence lies strictly        *)
(* between it and t.                                                       *)
C2_PrevIsNearestPast ==
    (Queried("prev") /\ WholeSecond) =>
        /\ call.tag = "ok"
        /\ IsOccurrence(rec, call.value)
        /\ Instant(call.value) < Instant(call.date)
        /\ ~OccurrenceBetween(rec, call.value, call.date)

\* prev asked at an occurrence of a two-day set
C2_Witness ==
    /\ Queried("prev") /\ WholeSecond
    /\ call.tag = "ok"
    /\ IsOccurrence(rec, call.date)
    /\ Len(rec.days) >= 2
    /\ call.week_day < call.current_day

(* C3: new fails with Error::Empty, returning no Recurrence, exactly when  *)
(* the source yields no weekday (only an empty slice does); otherwise it   *)
(* succeeds and DaySet is exactly the set of distinct weekdays of the      *)
(* source, of size at least 1.                                             *)
C3_NewFailsExactlyOnEmpty ==
    rec.tag # "none" =>
        /\ rec.tag = "Err" <=> Len(week_days(src)) = 0
        /\ rec.tag = "Err" => (rec = [tag |-> "Err", err |-> "Empty"]
                               /\ src.kind = "slice")
        /\ rec.tag = "Ok" =>
              /\ SetOf(rec.days) = DistinctDays(src)
              /\ Len(rec.days) = Cardinality(DistinctDays(src))
              /\ Len(rec.days) >= 1
              /\ rec.time = tod

\* new was given an empty slice
C3_Witness ==
    /\ rec.tag = "Err"
    /\ src.kind = "slice"
    /\ Len(src.items) = 0

(* C4: forward progress, for any time of day new accepts: outside the      *)
(* same-day case next(t) > t; in the same-day case next(t) is not before   *)
(* t's date at TimeOfDay; and next(t) is at most 7 days after t.           *)
C4_ForwardProgress ==
    Queried("next") =>
        /\ call.tag = "ok"
        /\ ~SameDayCase(rec, call.date) =>
              Instant(call.value) > Instant(call.date)
        /\ SameDayCase(rec, call.date) =>
              Instant(call.value) >=
                  Instant([day |-> call.date.day, sec |-> rec.time.sec,
                           sub |-> rec.time.sub])
        /\ Instant(call.value) - Instant(call.date) <= DaysPerWeek * TicksPerDay

(* C5: backward progress, for any time of day new accepts: prev(t) <= t    *)
(* and prev(t) is at most 7 days before t.                                 *)
C5_BackwardProgress ==
    Queried("prev") =>
        /\ call.tag = "ok"
        /\ Instant(call.value) <= Instant(call.date)
        /\ Instant(call.date) - Instant(call.value) <= DaysPerWeek * TicksPerDay

C8_OrderAndMultiplicityIrrelevant ==
    rec.tag = "Ok" =>
        \A other \in Sources :
            (Len(week_days(other)) > 0
             /\ DistinctDays(other) = DistinctDays(src)) =>
                LET rec2 == Recurrence_new(other, tod)
                IN  /\ rec2 = rec
                    /\ \A t \in WeekDates :
                          /\ Recurrence_next(rec2, t) = Recurrence_next(rec, t)
                          /\ Recurrence_prev(rec2, t) = Recurrence_prev(rec, t)

\* new was given two weekdays in descending order, and another source yields
\* the same weekdays in ascending order
C8_Witness ==
    /\ rec.tag = "Ok"
    /\ Len(week_days(src)) = 2
    /\ OrderedOf(week_days(src)[1]) > OrderedOf(week_days(src)[2])
    /\ \E other \in Sources :
          /\ Len(week_days(other)) = 2
          /\ DistinctDays(other) = DistinctDays(src)
          /\ OrderedOf(week_days(other)[1]) < OrderedOf(week_days(other)[2])

(* C9: duration_to(self, target) is a number of days d with 1 <= d <= 7    *)
(* and (ordinal(self) + d) mod 7 = ordinal(target); it is 7, never 0, when *)
(* target = self; it is target - self, plus 7 when that is below 1.        *)
C9_DurationToRange ==
    (Queried("next") /\ call.tag = "ok" /\ call.branch = "search") =>
        LET self == call.current_day
            target == call.week_day
            d == call.days_to_add
        IN  /\ d \in 1..DaysPerWeek
            /\ (self + d) % DaysPerWeek = target
            /\ target = self => d = DaysPerWeek
            /\ d = (IF target - self < 1 THEN target - self + DaysPerWeek
                    ELSE target - self)

\* duration_to was asked the distance from a day to itself
C9_Witness ==
    /\ Queried("next") /\ call.tag = "ok" /\ call.branch = "search"
    /\ call.week_day = call.current_day
    /\ call.days_to_add = DaysPerWeek

(* C10: with a whole-second TimeOfDay and o an occurrence,                 *)
(* prev(next(o)) = o and next(prev(o)) = o.                                *)
C10_NextPrevInverse ==
    (/\ rec.tag = "Ok" /\ WholeSecond
     /\ call.tag # "none"
     /\ prevCall.tag = "ok"
     /\ prevCall.op # call.op
     /\ IsOccurrence(rec, prevCall.date)) =>
        /\ call.tag = "ok"
        /\ call.date = prevCall.value
        /\ call.value = prevCall.date

\* prev was applied to next(o) for an occurrence o of a single-day schedule
C10_Witness ==
    /\ rec.tag = "Ok" /\ WholeSecond
    /\ prevCall.tag = "ok" /\ prevCall.op = "next"
    /\ call.tag = "ok" /\ call.op = "prev"
    /\ IsOccurrence(rec, prevCall.date)
    /\ Len(rec.days) = 1

===========================================================================
